---- MODULE Spec2Model ----
(***************************************************************************)
(* The data node coordinator of ZanRedisDB                                 *)
(* (cluster/datanode_coord/data_node_coordinator.go): the per-node agent   *)
(* that reconciles the local replicas of a data node with the partition    *)
(* metas the placement driver publishes through the registry.             *)
(*                                                                         *)
(* The registry, the peers' HTTP API, the namespace manager and the raft   *)
(* engine are collaborators: they are modelled by the state they expose   *)
(* (reg, nsMetas, peers, local) and by environment actions.               *)
(***************************************************************************)
EXTENDS Integers, Sequences, FiniteSets, Bags, TLC

VARIABLES
    reg,              \* registry: partition metas by <<namespace, partition>>
    nsMetas,          \* registry: namespaces whose namespace meta exists
    peers,            \* what each peer answers to GET members, per partition
    local,            \* namespace manager: local replicas by <<namespace, partition>>
    stopping,         \* DataCoordinator.stopping
    stopChan,         \* DataCoordinator.stopChan: "open" | "closed" | "panic"
    tryCheckUnsynced, \* DataCoordinator.tryCheckUnsynced: buffered messages (cap 1)
    wg,               \* DataCoordinator.wg: the WaitGroup counter
    catchupRunning,   \* DataCoordinator.catchupRunning
    coord,            \* Start's progress, collaborators' lifecycle, call counters
    watcher,          \* the watchPD goroutine
    worker,           \* the thread running a reconciliation pass and its position
    nudges,           \* transient goroutines running tryCheckNamespaces
    stoppers,         \* the callers of Stop and their positions
    frames,           \* invocations of ensureJoinNamespaceGroup in flight (a bag)
    log,              \* what the current pass (or drain) has issued so far
    probe             \* results of the placement predicates on the probed meta

vars == <<reg, nsMetas, peers, local, stopping, stopChan, tryCheckUnsynced, wg,
          catchupRunning, coord, watcher, worker, nudges, stoppers, frames, log,
          probe>>

---------------------------------------------------------------------------
(* Nodes, members, metas *)

Self == "n1"

Nodes == {"n1", "n2", "n3"}

\* RegID of a node id
ExtractRegIDFromGenID(nid) ==
    CASE nid = "n1" -> 1
      [] nid = "n2" -> 2
      [] nid = "n3" -> 3
      [] OTHER -> 0

GetMyRegID == ExtractRegIDFromGenID(Self)

\* a Go map read: the zero value when the key is absent
MapGet(m, k) == IF k \in DOMAIN m THEN m[k] ELSE 0

Range(s) == {s[i] : i \in DOMAIN s}

\* index of the first occurrence of v in the slice s, -1 when absent (0-based)
FindSlice(s, v) ==
    IF \E i \in DOMAIN s : s[i] = v
    THEN (CHOOSE i \in DOMAIN s : s[i] = v /\ \A j \in DOMAIN s : s[j] = v => i <= j) - 1
    ELSE -1

GetDesp(meta) == <<meta.Name, meta.Partition>>

Member(id, nodeID, desp) == [ID |-> id, NodeID |-> nodeID, GroupName |-> desp]

---------------------------------------------------------------------------
(* Placement predicates *)

\* what a peer answers to GET members: ok = FALSE when the request fails,
\* else its member list
PeerAnswer(ok, members) == [ok |-> ok, members |-> members]

RECURSIVE isMeInRaftGroupFrom(_, _, _, _)
\* the loop of isMeInRaftGroup from ISR position i on, with the lastErr so far;
\* the result is <<inRaft, lastErr # nil>>
isMeInRaftGroupFrom(meta, ans, i, lastErr) ==
    IF i > Len(meta.ISR) THEN <<FALSE, lastErr>>
    ELSE LET remoteNode == meta.ISR[i] IN
         IF remoteNode = Self
         THEN isMeInRaftGroupFrom(meta, ans, i + 1, lastErr)
         ELSE IF ~ans[remoteNode].ok
         THEN isMeInRaftGroupFrom(meta, ans, i + 1, TRUE)
         ELSE IF \E m \in ans[remoteNode].members :
                    m.NodeID = GetMyRegID /\ m.ID = MapGet(meta.RaftIDs, Self)
         THEN <<TRUE, lastErr>>
         ELSE isMeInRaftGroupFrom(meta, ans, i + 1, lastErr)

isMeInRaftGroup(meta, ans) == isMeInRaftGroupFrom(meta, ans, 1, FALSE)

\* a start decision that ignores meta.Removings
shouldStartIgnoringRemovings(meta, ans) == FindSlice(meta.RaftNodes, Self) # -1

isNamespaceShouldStart(meta, ans) ==
    IF FindSlice(meta.RaftNodes, Self) = -1 THEN FALSE
    ELSE IF Self \notin DOMAIN meta.Removings THEN TRUE
    ELSE IF meta.Removings[Self] # MapGet(meta.RaftIDs, Self) THEN TRUE
    ELSE isMeInRaftGroup(meta, ans)[1]

isNamespaceShouldStop(meta, ans) ==
    IF Self \notin DOMAIN meta.Removings THEN FALSE
    ELSE IF meta.Removings[Self] # MapGet(meta.RaftIDs, Self) THEN FALSE
    ELSE LET r == isMeInRaftGroup(meta, ans) IN
         IF r[1] \/ r[2] THEN FALSE
         ELSE FALSE

---------------------------------------------------------------------------
(* The log: what a pass or a drain issues, with the facts at issue time *)

NoNode == "none"

\* ev: "remove" | "add" | "transfer" (proposals), "join" (POST add-node),
\*     "create" (InitNamespaceNode+Start), "destroy", "ensure" (ensureJoin
\*     called), "joinret" (ensureJoin returned, res the result), "check" (the
\*     reconcile takes up a replica: by is the registry's answer, node the
\*     leader the replica reports, res whether the replica is "ready"),
\*     "drained" (prepareLeavingCluster is through: res whether
\*     GetAllNamespaces answered)
\* by: "load" | "notinisr" | "absent" | "sync" | "steer" | "stop" | "drain"
Event(ev, by, meta, id, node, nid, nmem, res) ==
    [ev |-> ev, by |-> by, d |-> GetDesp(meta), id |-> id, node |-> node,
     nid |-> nid, nmem |-> nmem, res |-> res,
     isrLen |-> Len(meta.ISR), replica |-> meta.Replica,
     isr0 |-> IF Len(meta.ISR) > 0 THEN meta.ISR[1] ELSE NoNode]

\* the meta stand-in for a replica the registry no longer lists
AbsentMeta(d) ==
    [Name |-> d[1], Partition |-> d[2], Replica |-> 0, RaftNodes |-> <<>>,
     ISR |-> <<>>, RaftIDs |-> <<>>, Removings |-> <<>>]

RECURSIVE SetToSeq(_)
\* the elements of a finite set, in some fixed order
SetToSeq(S) ==
    IF S = {} THEN <<>>
    ELSE LET x == CHOOSE x \in S : TRUE IN <<x>> \o SetToSeq(S \ {x})

---------------------------------------------------------------------------
(* Local replica facade *)

\* a replica of the namespace manager:
\*   rid      the ReplicaID it was created with
\*   members  GetMembers(): set of Member
\*   leader   GetLeadMember().NodeID, 0 when there is none
\*   synced   IsRaftSynced()
\*   ready    IsReady()
\*   joinReq  the member ID of the last join request a peer has not yet applied
Replica(rid, members, leader, synced, ready) ==
    [rid |-> rid, members |-> members, leader |-> leader, synced |-> synced,
     ready |-> ready, joinReq |-> 0]

GetLocalMemberInfo(d, r) == Member(r.rid, GetMyRegID, d)

\* removeLocalNamespaceFromRaft(localNamespace, true): the events it issues
removeLocalNamespaceFromRaft(meta, r, by) ==
    IF ~r.ready THEN <<>>
    ELSE <<Event("remove", by, meta, r.rid, GetMyRegID, Self,
                 Cardinality(r.members), "")>>

getNamespaceRaftLeader(d) ==
    IF d \notin DOMAIN local THEN 0 ELSE local[d].leader

\* transferMyNamespaceLeader(nsInfo, nid): the events it issues
transferMyNamespaceLeader(meta, nid, by) ==
    IF GetDesp(meta) \notin DOMAIN local THEN <<>>
    ELSE IF nid \notin DOMAIN meta.RaftIDs THEN <<>>
    ELSE <<Event("transfer", by, meta, meta.RaftIDs[nid],
                 ExtractRegIDFromGenID(nid), nid,
                 Cardinality(local[GetDesp(meta)].members), "")>>

---------------------------------------------------------------------------
(* Membership reconcile of one running replica: the body of doWork's loop *)

\* whether some Removings entry matches the member (m.ID, m.NodeID)
IsRemovingMember(meta, id, nodeID) ==
    \E nid \in DOMAIN meta.Removings :
        id = meta.Removings[nid] /\ nodeID = ExtractRegIDFromGenID(nid)

\* an add-member that does not look at meta.Removings
addMemberIgnoringRemovings(meta, id, nodeID) ==
    IF GetDesp(meta) \notin DOMAIN local THEN {}
    ELSE {Event("add", "sync", meta, id, nodeID, NoNode,
                Cardinality(local[GetDesp(meta)].members), "")}

\* addNamespaceRaftMember(nsInfo, m): the events it issues
addNamespaceRaftMember(meta, id, nodeID) ==
    IF IsRemovingMember(meta, id, nodeID) THEN {}
    ELSE IF GetDesp(meta) \notin DOMAIN local THEN {}
    ELSE {Event("add", "sync", meta, id, nodeID, NoNode,
                Cardinality(local[GetDesp(meta)].members), "")}

\* removeNamespaceRaftMember(nsInfo, m): the events it issues
removeNamespaceRaftMember(meta, m) ==
    IF GetDesp(meta) \notin DOMAIN local THEN {}
    ELSE {Event("remove", "sync", meta, m.ID, m.NodeID, NoNode,
                Cardinality(local[GetDesp(meta)].members), "")}

\* the replicas of meta.RaftIDs that no member carries the ID of
MissingReplicas(meta, members) ==
    {nid \in DOMAIN meta.RaftIDs : ~\E m \in members : m.ID = meta.RaftIDs[nid]}

\* a choice of the members to remove that leaves meta.Removings aside
ExtraMembersUnknownOnly(meta, members) ==
    {m \in members : ~\E nid \in DOMAIN meta.RaftIDs : m.ID = meta.RaftIDs[nid]}

\* lines 506-528: the members the over-provisioned branch proposes to remove:
\* those the loop over meta.RaftIDs does not find, and of the found ones those
\* the loop over meta.Removings matches
ExtraMembers(meta, members) ==
    {m \in members :
        LET found == \E nid \in DOMAIN meta.RaftIDs : m.ID = meta.RaftIDs[nid]
        IN IF ~found THEN TRUE
           ELSE \E nid \in DOMAIN meta.Removings :
                    /\ m.ID = meta.Removings[nid]
                    /\ m.NodeID = ExtractRegIDFromGenID(nid)}

\* a shrink decided on the member count alone
memberSyncNoISRCheck(meta, members, addrOK) ==
    LET missing == MissingReplicas(meta, members)
        adds == UNION {addNamespaceRaftMember(meta, meta.RaftIDs[nid],
                                              ExtractRegIDFromGenID(nid)) :
                       nid \in {n \in missing : addrOK}}
    IN IF missing # {} \/ Cardinality(members) <= meta.Replica
       THEN [evs |-> SetToSeq(adds), destroy |-> FALSE, nudge |-> TRUE]
       ELSE [evs |-> SetToSeq(UNION {removeNamespaceRaftMember(meta, m) :
                                     m \in ExtraMembers(meta, members)}),
             destroy |-> FALSE, nudge |-> FALSE]

\* a member sync that proposes its removals in the round of its additions
memberSyncAddsAndRemoves(meta, members, addrOK) ==
    LET missing == MissingReplicas(meta, members)
        adds == UNION {addNamespaceRaftMember(meta, meta.RaftIDs[nid],
                                              ExtractRegIDFromGenID(nid)) :
                       nid \in {n \in missing : addrOK}}
        removes == UNION {removeNamespaceRaftMember(meta, m) :
                          m \in ExtraMembers(meta, members)}
    IN [evs |-> SetToSeq(adds) \o SetToSeq(removes), destroy |-> FALSE,
        nudge |-> missing # {} \/ Cardinality(members) <= meta.Replica
                  \/ Len(meta.ISR) < meta.Replica]

\* the member-sync branch (lines 471-528): adds first, removals only when
\* nothing is missing, the members outnumber Replica and the ISR is full
memberSync(meta, members, addrOK) ==
    LET missing == MissingReplicas(meta, members)
        anyJoined == missing # {}
        isReplicasEnough == Len(meta.ISR) >= meta.Replica
        adds == UNION {addNamespaceRaftMember(meta, meta.RaftIDs[nid],
                                              ExtractRegIDFromGenID(nid)) :
                       nid \in {n \in missing : addrOK}}
    IN IF anyJoined \/ Cardinality(members) <= meta.Replica \/ ~isReplicasEnough
       THEN [evs |-> SetToSeq(adds), destroy |-> FALSE, nudge |-> TRUE]
       ELSE [evs |-> SetToSeq(UNION {removeNamespaceRaftMember(meta, m) :
                                     m \in ExtraMembers(meta, members)}),
             destroy |-> FALSE, nudge |-> FALSE]

NoEffect == [evs |-> <<>>, destroy |-> FALSE, nudge |-> FALSE]

\* a steering that syncs the members in the round of the transfer too
steerAndSync(meta, d, addrOK) ==
    IF Len(meta.ISR) >= meta.Replica /\ meta.ISR[1] # Self
    THEN [evs |-> transferMyNamespaceLeader(meta, meta.ISR[1], "steer")
                  \o memberSync(meta, local[d].members, addrOK).evs,
          destroy |-> FALSE, nudge |-> FALSE]
    ELSE memberSync(meta, local[d].members, addrOK)

\* a steering that transfers whenever the replicas are enough
steerAlways(meta, d, addrOK) ==
    IF Len(meta.ISR) >= meta.Replica
    THEN [evs |-> transferMyNamespaceLeader(meta, meta.ISR[1], "steer"),
          destroy |-> FALSE, nudge |-> FALSE]
    ELSE memberSync(meta, local[d].members, addrOK)

\* lines 462-529 with the registry answering: steer the leader or sync members
steerOrSync(meta, d, addrOK) ==
    IF Len(meta.ISR) >= meta.Replica /\ meta.ISR[1] # Self
    THEN [evs |-> transferMyNamespaceLeader(meta, meta.ISR[1], "steer"),
          destroy |-> FALSE, nudge |-> FALSE]
    ELSE memberSync(meta, local[d].members, addrOK)

\* a reconcile that asks who leads before it looks for self in the ISR
reconcileLeaderFirst(meta, d, addrOK) ==
    IF isNamespaceShouldStop(meta, peers[d])
    THEN [evs |-> <<Event("destroy", "stop", meta, local[d].rid, GetMyRegID,
                          Self, Cardinality(local[d].members), "")>>,
          destroy |-> TRUE, nudge |-> FALSE]
    ELSE IF getNamespaceRaftLeader(d) # GetMyRegID THEN NoEffect
    ELSE IF FindSlice(meta.ISR, Self) = -1
    THEN [evs |-> IF Len(meta.ISR) > 0
                  THEN removeLocalNamespaceFromRaft(meta, local[d], "notinisr")
                  ELSE <<>>,
          destroy |-> FALSE, nudge |-> FALSE]
    ELSE IF Len(meta.ISR) = 0 THEN NoEffect
    ELSE steerOrSync(meta, d, addrOK)

\* lines 442-529: the replica d has the meta `meta` in the registry
reconcileWithMeta(meta, d, addrOK) ==
    IF isNamespaceShouldStop(meta, peers[d])
    THEN [evs |-> <<Event("destroy", "stop", meta, local[d].rid, GetMyRegID,
                          Self, Cardinality(local[d].members), "")>>,
          destroy |-> TRUE, nudge |-> FALSE]
    ELSE IF getNamespaceRaftLeader(d) = 0 THEN NoEffect
    ELSE IF FindSlice(meta.ISR, Self) = -1
    THEN [evs |-> IF Len(meta.ISR) > 0
                  THEN removeLocalNamespaceFromRaft(meta, local[d], "notinisr")
                  ELSE <<>>,
          destroy |-> FALSE, nudge |-> FALSE]
    ELSE IF getNamespaceRaftLeader(d) # GetMyRegID \/ Len(meta.ISR) = 0
    THEN NoEffect
    ELSE steerOrSync(meta, d, addrOK)

\* registry faults a reconcile step can meet: the failing call, "" for none
CheckFaults == {"", "partinfo", "nsmeta", "addr"}

\* lines 429-434: what the registry answers about the replica d: "parterr"
\* (GetNamespacePartInfo fails, not with ErrKeyNotFound), "found" (it returns
\* the meta), else GetNamespaceMetaInfo is asked: "nserr" (it fails, not with
\* ErrKeyNotFound), "nsfound" (the namespace meta exists), "absent" (both
\* return ErrKeyNotFound)
RegistryAnswer(d, fault) ==
    IF fault = "partinfo" THEN "parterr"
    ELSE IF d \in DOMAIN reg THEN "found"
    ELSE IF fault = "nsmeta" THEN "nserr"
    ELSE IF d[1] \in nsMetas THEN "nsfound"
    ELSE "absent"

\* a reconcile that takes any failure of GetNamespaceMetaInfo for an absence
reconcileOneAnyError(d, fault) ==
    IF fault = "partinfo"
    THEN [evs |-> <<>>, destroy |-> FALSE, nudge |-> TRUE]
    ELSE IF d \notin DOMAIN reg
    THEN IF fault = "nsmeta" \/ d[1] \notin nsMetas
         THEN [evs |-> removeLocalNamespaceFromRaft(AbsentMeta(d), local[d], "absent")
                       \o <<Event("destroy", "absent", AbsentMeta(d), local[d].rid,
                                  GetMyRegID, Self, Cardinality(local[d].members), "")>>,
               destroy |-> TRUE, nudge |-> TRUE]
         ELSE [evs |-> <<>>, destroy |-> FALSE, nudge |-> TRUE]
    ELSE reconcileWithMeta(reg[d], d, fault # "addr")

\* lines 424-529: one replica of tmpChecks; fault names the registry call that
\* fails with an error other than ErrKeyNotFound
reconcileOne(d, fault) ==
    IF fault = "partinfo"
    THEN [evs |-> <<>>, destroy |-> FALSE, nudge |-> TRUE]
    ELSE IF d \notin DOMAIN reg
    THEN IF fault # "nsmeta" /\ d[1] \notin nsMetas
         THEN [evs |-> removeLocalNamespaceFromRaft(AbsentMeta(d), local[d], "absent")
                       \o <<Event("destroy", "absent", AbsentMeta(d), local[d].rid,
                                  GetMyRegID, Self, Cardinality(local[d].members), "")>>,
               destroy |-> TRUE, nudge |-> TRUE]
         ELSE [evs |-> <<>>, destroy |-> FALSE, nudge |-> TRUE]
    ELSE reconcileWithMeta(reg[d], d, fault # "addr")

---------------------------------------------------------------------------
(* ensureJoinNamespaceGroup *)

MAX_RAFT_JOIN_RUNNING == 5

\* iterations of the join loop before its 30 seconds are over, at most
MaxJoinIter == 2

\* the same for a caller other than the pass
MaxCallIter == 1

IterBound(f) == IF f.owner = "call" THEN MaxCallIter ELSE MaxJoinIter

\* line 664-669: self is being removed under its current replica id
IsRemovingSelf(meta) ==
    /\ Self \in DOMAIN meta.Removings
    /\ meta.Removings[Self] = MapGet(meta.RaftIDs, Self)

\* a test of the member list that does not ask for a majority of the ISR
alreadyJoinedNoQuorum(meta, members) ==
    \E m \in members :
        /\ m.NodeID = GetMyRegID
        /\ m.GroupName = GetDesp(meta)
        /\ m.ID = MapGet(meta.RaftIDs, Self)

\* lines 696-710: the member list shows that self has joined
alreadyJoined(meta, members) ==
    \E m \in members :
        /\ m.NodeID = GetMyRegID
        /\ m.GroupName = GetDesp(meta)
        /\ m.ID = MapGet(meta.RaftIDs, Self)
        /\ Cardinality(members) > Len(meta.ISR) \div 2

\* join targets taken from RaftNodes whatever the ISR is
JoinTargetsRaftNodes(meta) == meta.RaftNodes

\* lines 727-730: the nodes a join request goes to
JoinTargets(meta) == IF Len(meta.ISR) = 0 THEN meta.RaftNodes ELSE meta.ISR

RECURSIVE pickRemoteFrom(_, _, _, _, _)
\* lines 731-741: the loop from (retry, cnt) on; <<remote, retry>> when it ends
pickRemoteFrom(isr, members, retry, cnt, remote) ==
    IF cnt > Len(isr) THEN <<remote, retry>>
    ELSE LET r == isr[(retry % Len(isr)) + 1] IN
         IF r = Self THEN pickRemoteFrom(isr, members, retry + 1, cnt + 1, r)
         ELSE IF ~\E m \in members : m.NodeID = ExtractRegIDFromGenID(r)
         THEN <<r, retry + 1>>
         ELSE pickRemoteFrom(isr, members, retry + 1, cnt + 1, r)

pickRemote(meta, members, retry) ==
    pickRemoteFrom(JoinTargets(meta), members, retry, 0, NoNode)

\* an invocation of ensureJoinNamespaceGroup in flight
\*   owner   "pass" (called by the load pass) | "call" (another caller)
\*   pc      "loop" | "wait" | "end" | "busy" | "conf" | "ret"
\*   over    whether its increment took catchupRunning past
\*           MAX_RAFT_JOIN_RUNNING
\*   sent    whether it has sent a join request
\*   res     the result once pc = "ret": "nil" or the error
Frame(owner, meta, pc, res) ==
    [owner |-> owner, meta |-> meta, pc |-> pc, over |-> FALSE, retry |-> 0,
     iter |-> 0, joinErr |-> "nil", sent |-> FALSE, nudged |-> FALSE, res |-> res]

FramesIn(pcs) == {f \in BagToSet(frames) : f.pc \in pcs}

ReplaceFrame(f, g) == (frames (-) SetToBag({f})) (+) SetToBag({g})

\* the gate that admits one caller too many
joinGateOffByOne(myRunning) == myRunning > MAX_RAFT_JOIN_RUNNING + 1

\* line 673: the caller whose increment gave myRunning is turned away
joinGateBusy(myRunning) == myRunning > MAX_RAFT_JOIN_RUNNING

\* lines 664-690: the call up to the join loop; the frame it leaves and the new
\* value of catchupRunning
ensureJoinEnter(owner, meta) ==
    LET myRunning == catchupRunning + 1
        at(pc) == [Frame(owner, meta, pc, "") EXCEPT
                      !.over = myRunning > MAX_RAFT_JOIN_RUNNING]
    IN IF IsRemovingSelf(meta)
       THEN [frame |-> Frame(owner, meta, "ret", "nil"), running |-> catchupRunning]
       ELSE IF joinGateBusy(myRunning)
       THEN [frame |-> at("busy"), running |-> myRunning]
       ELSE IF Self \notin DOMAIN meta.RaftIDs
       THEN [frame |-> at("conf"), running |-> myRunning]
       ELSE [frame |-> at("loop"), running |-> myRunning]

\* a closed stop channel closed again panics: the process is gone
Alive == stopChan # "panic"

\* a send that queues behind the pending nudge
PostNudgeQueued(ch) == ch + 1

\* tryCheckNamespaces' non-blocking send: dropped when the buffer is full
PostNudge(ch) == IF ch = 0 THEN 1 ELSE ch

\* the log is kept only where coord.trace asks for it
Logged(evs) == IF coord.trace THEN log \o evs ELSE log

LogIf(cond, evs) == IF cond THEN Logged(evs) ELSE log

\* lines 673-677: turned away at the gate: nudge, then CatchupRunningBusy
JoinBusy(f) ==
    /\ Alive /\ f.pc = "busy"
    /\ tryCheckUnsynced' = PostNudge(tryCheckUnsynced)
    /\ catchupRunning' = catchupRunning - 1
    /\ frames' = ReplaceFrame(f, [f EXCEPT !.pc = "ret", !.nudged = TRUE,
                                           !.res = "CatchupRunningBusy"])
    /\ log' = LogIf(f.owner = "pass",
                    <<Event("joinret", "load", f.meta, 0, 0, NoNode, 0,
                            "CatchupRunningBusy")>>)
    /\ UNCHANGED <<reg, nsMetas, peers, local, stopping, stopChan, wg, coord,
                   watcher, worker, nudges, stoppers, probe>>

\* lines 685-690: meta has no replica id for self
JoinConfInvalid(f) ==
    /\ Alive /\ f.pc = "conf"
    /\ catchupRunning' = catchupRunning - 1
    /\ frames' = ReplaceFrame(f, [f EXCEPT !.pc = "ret", !.res = "ConfInvalid"])
    /\ log' = LogIf(f.owner = "pass",
                    <<Event("joinret", "load", f.meta, 0, 0, NoNode, 0,
                            "ConfInvalid")>>)
    /\ UNCHANGED <<reg, nsMetas, peers, local, stopping, stopChan,
                   tryCheckUnsynced, wg, coord, watcher, worker, nudges,
                   stoppers, probe>>

\* lines 694-748: one iteration of the join loop, up to its wait
JoinLoop(f) ==
    /\ Alive /\ f.pc = "loop" /\ f.iter < IterBound(f)
    /\ GetDesp(f.meta) \in DOMAIN local
    /\ LET d == GetDesp(f.meta)
           mems == local[d].members
           raftID == f.meta.RaftIDs[Self]
           pick == pickRemote(f.meta, mems, f.retry)
       IN IF alreadyJoined(f.meta, mems)
          THEN /\ frames' = ReplaceFrame(f,
                     IF local[d].synced
                     THEN [f EXCEPT !.pc = "end", !.joinErr = "nil",
                                    !.iter = f.iter + 1]
                     ELSE [f EXCEPT !.pc = "wait", !.joinErr = "WaitingSync",
                                    !.iter = f.iter + 1])
               /\ UNCHANGED <<local, log>>
          ELSE /\ frames' = ReplaceFrame(f,
                     [f EXCEPT !.pc = "wait", !.joinErr = "WaitingSync",
                               !.iter = f.iter + 1, !.retry = pick[2],
                               !.sent = f.sent \/ pick[1] # Self])
               /\ local' = IF pick[1] # Self
                           THEN [local EXCEPT ![d].joinReq = raftID]
                           ELSE local
               /\ log' = LogIf(f.owner = "pass" /\ pick[1] # Self,
                               <<Event("join", "load", f.meta, raftID, GetMyRegID,
                                       pick[1], Cardinality(mems), "")>>)
    /\ UNCHANGED <<reg, nsMetas, peers, stopping, stopChan, tryCheckUnsynced,
                   wg, catchupRunning, coord, watcher, worker, nudges, stoppers,
                   probe>>

\* line 694: the 30 seconds are over
JoinTimeout(f) ==
    /\ Alive /\ f.pc = "loop" /\ f.iter >= 1
    /\ frames' = ReplaceFrame(f, [f EXCEPT !.pc = "end"])
    /\ UNCHANGED <<reg, nsMetas, peers, local, stopping, stopChan,
                   tryCheckUnsynced, wg, catchupRunning, coord, watcher, worker,
                   nudges, stoppers, log, probe>>

\* lines 717-721, 743-747: the timer fires first
JoinWaitTimer(f) ==
    /\ Alive /\ f.pc = "wait" /\ stopChan = "open"
    /\ frames' = ReplaceFrame(f, [f EXCEPT !.pc = "loop"])
    /\ UNCHANGED <<reg, nsMetas, peers, local, stopping, stopChan,
                   tryCheckUnsynced, wg, catchupRunning, coord, watcher, worker,
                   nudges, stoppers, log, probe>>

\* lines 717-721, 743-747: the stop channel is closed
JoinWaitStop(f) ==
    /\ Alive /\ f.pc = "wait" /\ stopChan = "closed"
    /\ catchupRunning' = catchupRunning - 1
    /\ frames' = ReplaceFrame(f, [f EXCEPT !.pc = "ret", !.res = "Exiting"])
    /\ log' = LogIf(f.owner = "pass",
                    <<Event("joinret", "load", f.meta, 0, 0, NoNode, 0, "Exiting")>>)
    /\ UNCHANGED <<reg, nsMetas, peers, local, stopping, stopChan,
                   tryCheckUnsynced, wg, coord, watcher, worker, nudges,
                   stoppers, probe>>

\* lines 750-756: after the loop: nudge on failure, return joinErr
JoinEnd(f) ==
    /\ Alive /\ f.pc = "end"
    /\ tryCheckUnsynced' = IF f.joinErr # "nil" THEN PostNudge(tryCheckUnsynced)
                           ELSE tryCheckUnsynced
    /\ catchupRunning' = catchupRunning - 1
    /\ frames' = ReplaceFrame(f, [f EXCEPT !.pc = "ret", !.res = f.joinErr,
                                           !.nudged = f.joinErr # "nil"])
    /\ log' = LogIf(f.owner = "pass",
                    <<Event("joinret", "load", f.meta, 0, 0, NoNode, 0, f.joinErr)>>)
    /\ UNCHANGED <<reg, nsMetas, peers, local, stopping, stopChan, wg, coord,
                   watcher, worker, nudges, stoppers, probe>>

---------------------------------------------------------------------------
(* loadLocalNamespaceData *)

\* the thread running a pass:
\*   by      "none" | "start" (Start's initial load) | "loop" (the main loop)
\*   pc      "none" | "load" | "part" | "join" | "loaded" | "check" | "select"
\*           | "exited"
\*   snap    the namespaceMap GetAllNamespaces returned
\*   nsTodo  the namespaces of snap still to range over
\*   cur     the rest of sortedParts of the namespace at hand
\*   checks  the rest of tmpChecks
\*   err     whether loadLocalNamespaceData returned an error
Worker(by, pc) ==
    [by |-> by, pc |-> pc, snap |-> <<>>, nsTodo |-> {}, cur |-> <<>>,
     checks |-> {}, err |-> FALSE]

RECURSIVE SortByPartition(_)
\* sort.Sort(sortedParts): ascending Partition
SortByPartition(ds) ==
    IF ds = {} THEN <<>>
    ELSE LET least == CHOOSE x \in ds : \A y \in ds : x[2] <= y[2]
         IN <<least>> \o SortByPartition(ds \ {least})

\* lines 207-211: the partitions of one namespace in the order they are handled
sortedParts(snap, ns) == SortByPartition({d \in DOMAIN snap : d[1] = ns})

\* lines 600-621: the seed nodes of prepareNamespaceConf, as members
SeedNodes(meta, addrOK) ==
    {Member(meta.RaftIDs[nid], ExtractRegIDFromGenID(nid), GetDesp(meta)) :
        nid \in {n \in Range(meta.ISR) :
                    n \in DOMAIN meta.RaftIDs /\ (n = Self \/ addrOK)}}

\* faults a load step can meet: "" none, "magic" checkLocalNamespaceMagicCode
\* fails, "addr" GetNodeInfo fails, "init" InitNamespaceNode or CheckRaftConf
\* fails, "start" SetMagicCode or Start fails
LoadFaults == {"", "magic", "addr", "init", "start"}

\* lines 198-204: GetAllNamespaces
LoadBegin(fault) ==
    /\ Alive /\ worker.pc = "load"
    /\ fault \in (IF coord.faults THEN {"", "err"} ELSE {""})
    /\ worker' = IF fault = "err"
                 THEN [worker EXCEPT !.pc = "loaded", !.err = TRUE]
                 ELSE [worker EXCEPT !.pc = "part", !.snap = reg, !.err = FALSE,
                                     !.nsTodo = {d[1] : d \in DOMAIN reg},
                                     !.cur = <<>>]
    /\ log' = SelectSeq(log, LAMBDA e : e.by = "drain")
    /\ UNCHANGED <<reg, nsMetas, peers, local, stopping, stopChan,
                   tryCheckUnsynced, wg, catchupRunning, coord, watcher, nudges,
                   stoppers, frames, probe>>

\* line 206: the next namespace of the map, in no particular order
LoadPickNS(ns) ==
    /\ Alive /\ worker.pc = "part" /\ worker.cur = <<>>
    /\ ns \in worker.nsTodo
    /\ worker' = [worker EXCEPT !.nsTodo = worker.nsTodo \ {ns},
                                !.cur = sortedParts(worker.snap, ns)]
    /\ UNCHANGED <<reg, nsMetas, peers, local, stopping, stopChan,
                   tryCheckUnsynced, wg, catchupRunning, coord, watcher, nudges,
                   stoppers, frames, log, probe>>

\* lines 212-220: the partition should not run here
LoadSkip ==
    /\ Alive /\ worker.pc = "part" /\ worker.cur # <<>>
    /\ LET d == Head(worker.cur)
           meta == worker.snap[d]
       IN /\ ~isNamespaceShouldStart(meta, peers[d])
          /\ log' = LogIf(Len(meta.ISR) >= meta.Replica /\ d \in DOMAIN local,
                          IF d \in DOMAIN local
                          THEN removeLocalNamespaceFromRaft(meta, local[d], "load")
                          ELSE <<>>)
    /\ worker' = [worker EXCEPT !.cur = Tail(worker.cur)]
    /\ UNCHANGED <<reg, nsMetas, peers, local, stopping, stopChan,
                   tryCheckUnsynced, wg, catchupRunning, coord, watcher, nudges,
                   stoppers, frames, probe>>

\* lines 221-223: the replica is already loaded: ensureJoinNamespaceGroup
LoadJoinLoaded ==
    /\ Alive /\ worker.pc = "part" /\ worker.cur # <<>>
    /\ LET d == Head(worker.cur)
           meta == worker.snap[d]
           e == ensureJoinEnter("pass", meta)
       IN /\ isNamespaceShouldStart(meta, peers[d])
          /\ d \in DOMAIN local
          /\ frames' = frames (+) SetToBag({e.frame})
          /\ catchupRunning' = e.running
          /\ log' = Logged(<<Event("ensure", "load", meta, local[d].rid,
                                    GetMyRegID, Self, 0, "")>>
                           \o IF e.frame.pc = "ret"
                              THEN <<Event("joinret", "load", meta, 0, 0, NoNode,
                                           0, e.frame.res)>>
                              ELSE <<>>)
    /\ worker' = [worker EXCEPT !.pc = "join"]
    /\ UNCHANGED <<reg, nsMetas, peers, local, stopping, stopChan,
                   tryCheckUnsynced, wg, coord, watcher, nudges, stoppers, probe>>

\* lines 230-253: no replica yet: check the magic code, updateLocalNamespace,
\* then ensureJoinNamespaceGroup; a failure skips the partition
LoadCreate(fault, seeded) ==
    /\ Alive /\ worker.pc = "part" /\ worker.cur # <<>>
    /\ fault \in (IF coord.faults THEN LoadFaults ELSE {""})
    /\ LET d == Head(worker.cur)
           meta == worker.snap[d]
           seeds == SeedNodes(meta, fault # "addr")
           confOK == Self \in DOMAIN meta.RaftIDs /\ seeds # {}
           made == fault \notin {"magic", "init"} /\ confOK
           started == made /\ fault # "start"
           r == Replica(MapGet(meta.RaftIDs, Self), IF seeded THEN seeds ELSE {},
                        0, FALSE, started)
           e == ensureJoinEnter("pass", meta)
       IN /\ isNamespaceShouldStart(meta, peers[d])
          /\ d \notin DOMAIN local
          /\ local' = IF made THEN (d :> r) @@ local ELSE local
          /\ IF started
             THEN /\ frames' = frames (+) SetToBag({e.frame})
                  /\ catchupRunning' = e.running
                  /\ worker' = [worker EXCEPT !.pc = "join"]
                  /\ log' = Logged(<<Event("create", "load", meta, r.rid,
                                            GetMyRegID, Self, 0, ""),
                                      Event("ensure", "load", meta, r.rid,
                                            GetMyRegID, Self, 0, "")>>
                                   \o IF e.frame.pc = "ret"
                                      THEN <<Event("joinret", "load", meta, 0, 0,
                                                   NoNode, 0, e.frame.res)>>
                                      ELSE <<>>)
             ELSE /\ worker' = [worker EXCEPT !.cur = Tail(worker.cur)]
                  /\ UNCHANGED <<frames, catchupRunning, log>>
    /\ UNCHANGED <<reg, nsMetas, peers, stopping, stopChan, tryCheckUnsynced,
                   wg, coord, watcher, nudges, stoppers, probe>>

\* a break that goes on with the next partition
afterJoinNoBreak(cur, res) == Tail(cur)

\* lines 224-228, 254-257: break out of the namespace on a join error other
\* than ConfInvalid; the partitions left of the namespace
afterJoin(cur, res) ==
    IF res # "nil" /\ res # "ConfInvalid" THEN <<>> ELSE Tail(cur)

\* ensureJoinNamespaceGroup has returned to the load pass
LoadAfterJoin(f) ==
    /\ Alive /\ worker.pc = "join"
    /\ f.owner = "pass" /\ f.pc = "ret"
    /\ frames' = frames (-) SetToBag({f})
    /\ worker' = [worker EXCEPT !.pc = "part",
                                !.cur = afterJoin(worker.cur, f.res)]
    /\ UNCHANGED <<reg, nsMetas, peers, local, stopping, stopChan,
                   tryCheckUnsynced, wg, catchupRunning, coord, watcher, nudges,
                   stoppers, log, probe>>

\* line 260: every namespace has been ranged over
LoadDone ==
    /\ Alive /\ worker.pc = "part" /\ worker.cur = <<>> /\ worker.nsTodo = {}
    /\ worker' = [worker EXCEPT !.pc = "loaded", !.snap = <<>>]
    /\ UNCHANGED <<reg, nsMetas, peers, local, stopping, stopChan,
                   tryCheckUnsynced, wg, catchupRunning, coord, watcher, nudges,
                   stoppers, frames, log, probe>>

LoadStep ==
    \/ \E fault \in {"", "err"} : LoadBegin(fault)
    \/ \E ns \in worker.nsTodo : LoadPickNS(ns)
    \/ LoadSkip
    \/ LoadJoinLoaded
    \/ \E fault \in LoadFaults, seeded \in BOOLEAN : LoadCreate(fault, seeded)
    \/ \E f \in BagToSet(frames) : LoadAfterJoin(f)
    \/ LoadDone

---------------------------------------------------------------------------
(* checkForUnsyncedNamespaces: doWork's second half and the main loop *)

\* transient nudge goroutines alive at once, at most
MaxNudges == 2

Without(f, d) == [x \in DOMAIN f \ {d} |-> f[x]]

\* line 422: tmpChecks = GetNamespaces()
CheckBegin ==
    /\ Alive /\ worker.by = "loop" /\ worker.pc = "loaded"
    /\ worker' = [worker EXCEPT !.pc = "check", !.checks = DOMAIN local]
    /\ UNCHANGED <<reg, nsMetas, peers, local, stopping, stopChan,
                   tryCheckUnsynced, wg, catchupRunning, coord, watcher, nudges,
                   stoppers, frames, log, probe>>

\* lines 423-530: one replica of tmpChecks, in no particular order
CheckOne(d, fault) ==
    /\ Alive /\ worker.pc = "check" /\ d \in worker.checks
    /\ fault \in (IF coord.faults THEN CheckFaults ELSE {""})
    /\ LET r == reconcileOne(d, fault)
           meta == IF d \in DOMAIN reg THEN reg[d] ELSE AbsentMeta(d)
           seen == Event("check", RegistryAnswer(d, fault), meta, local[d].rid,
                         local[d].leader, Self, Cardinality(local[d].members),
                         IF local[d].ready THEN "ready" ELSE "notready")
       IN /\ r.nudge => nudges < MaxNudges
          /\ log' = Logged(<<seen>> \o r.evs)
          /\ local' = IF r.destroy THEN Without(local, d) ELSE local
          /\ nudges' = IF r.nudge THEN nudges + 1 ELSE nudges
    /\ worker' = [worker EXCEPT !.checks = worker.checks \ {d}]
    /\ UNCHANGED <<reg, nsMetas, peers, stopping, stopChan, tryCheckUnsynced,
                   wg, catchupRunning, coord, watcher, stoppers, frames, probe>>

\* line 531: doWork returns to the select
CheckDone ==
    /\ Alive /\ worker.pc = "check" /\ worker.checks = {}
    /\ worker' = [worker EXCEPT !.pc = "select"]
    /\ UNCHANGED <<reg, nsMetas, peers, local, stopping, stopChan,
                   tryCheckUnsynced, wg, catchupRunning, coord, watcher, nudges,
                   stoppers, frames, log, probe>>

\* lines 536-537: case <-self.stopChan
LoopStop ==
    /\ Alive /\ worker.pc = "select" /\ stopChan = "closed"
    /\ worker' = [worker EXCEPT !.pc = "exited"]
    /\ wg' = wg - 1
    /\ UNCHANGED <<reg, nsMetas, peers, local, stopping, stopChan,
                   tryCheckUnsynced, catchupRunning, coord, watcher, nudges,
                   stoppers, frames, log, probe>>

\* lines 538-539: case <-self.tryCheckUnsynced
LoopNudge ==
    /\ Alive /\ worker.pc = "select" /\ tryCheckUnsynced > 0
    /\ tryCheckUnsynced' = tryCheckUnsynced - 1
    /\ worker' = [worker EXCEPT !.pc = "load"]
    /\ UNCHANGED <<reg, nsMetas, peers, local, stopping, stopChan, wg,
                   catchupRunning, coord, watcher, nudges, stoppers, frames, log,
                   probe>>

\* lines 540-543: case <-ticker.C, case <-nsChangedChan
LoopTick ==
    /\ Alive /\ worker.pc = "select"
    /\ worker' = [worker EXCEPT !.pc = "load"]
    /\ UNCHANGED <<reg, nsMetas, peers, local, stopping, stopChan,
                   tryCheckUnsynced, wg, catchupRunning, coord, watcher, nudges,
                   stoppers, frames, log, probe>>

\* lines 653-659: a nudge goroutine wakes and posts without blocking
NudgePost ==
    /\ Alive /\ nudges > 0
    /\ nudges' = nudges - 1
    /\ tryCheckUnsynced' = PostNudge(tryCheckUnsynced)
    /\ UNCHANGED <<reg, nsMetas, peers, local, stopping, stopChan, wg,
                   catchupRunning, coord, watcher, worker, stoppers, frames, log,
                   probe>>

CheckStep ==
    \/ CheckBegin
    \/ \E d \in worker.checks, fault \in CheckFaults : CheckOne(d, fault)
    \/ CheckDone

LoopStep ==
    \/ LoopStop
    \/ LoopNudge
    \/ LoopTick

---------------------------------------------------------------------------
(* Start, Stop, watchPD *)

\* close(self.stopChan)
CloseChan(ch) == IF ch = "open" THEN "closed" ELSE "panic"

\* a Start that registers before it looks at the RegID
StartCallRegisterFirst(fault) ==
    /\ Alive /\ coord.start = "new"
    /\ fault \in (IF coord.faults THEN {"", "register"} ELSE {""})
    /\ IF fault = "register" \/ coord.regID <= 0
       THEN /\ coord' = [coord EXCEPT !.start = "failed",
                                      !.startErr = IF fault = "register"
                                                   THEN "register" ELSE "regid",
                                      !.registerCalls = coord.registerCalls + 1]
            /\ UNCHANGED <<wg, watcher, worker>>
       ELSE /\ coord' = [coord EXCEPT !.start = "loading", !.nsMgr = "started",
                                      !.registerCalls = coord.registerCalls + 1]
            /\ wg' = wg + 1
            /\ watcher' = [pc |-> "running", leaderChan |-> "open"]
            /\ worker' = Worker("start", "load")
    /\ UNCHANGED <<reg, nsMetas, peers, local, stopping, stopChan,
                   tryCheckUnsynced, catchupRunning, nudges, stoppers, frames,
                   log, probe>>

\* lines 99-115: Start up to the initial load
\*   fault: "" | "register" (Register fails)
\* coord.startErr tells which error Start returned: "regid" (line 103),
\* "register" (line 108), "load" (line 120)
StartCall(fault) ==
    /\ Alive /\ coord.start = "new"
    /\ fault \in (IF coord.faults THEN {"", "register"} ELSE {""})
    /\ IF coord.regID <= 0
       THEN /\ coord' = [coord EXCEPT !.start = "failed", !.startErr = "regid"]
            /\ UNCHANGED <<wg, watcher, worker>>
       ELSE IF fault = "register"
       THEN /\ coord' = [coord EXCEPT !.start = "failed",
                                      !.startErr = "register",
                                      !.registerCalls = coord.registerCalls + 1]
            /\ UNCHANGED <<wg, watcher, worker>>
       ELSE /\ coord' = [coord EXCEPT !.start = "loading", !.nsMgr = "started",
                                      !.registerCalls = coord.registerCalls + 1]
            /\ wg' = wg + 1
            /\ watcher' = [pc |-> "running", leaderChan |-> "open"]
            /\ worker' = Worker("start", "load")
    /\ UNCHANGED <<reg, nsMetas, peers, local, stopping, stopChan,
                   tryCheckUnsynced, catchupRunning, nudges, stoppers, frames,
                   log, probe>>

\* lines 117-125: after the initial load
StartFinish ==
    /\ Alive /\ coord.start = "loading"
    /\ worker.by = "start" /\ worker.pc = "loaded"
    /\ IF worker.err
       THEN /\ stopChan' = CloseChan(stopChan)
            /\ coord' = [coord EXCEPT !.start = "failed", !.startErr = "load"]
            /\ worker' = Worker("none", "none")
            /\ UNCHANGED wg
       ELSE /\ wg' = wg + 1
            /\ coord' = [coord EXCEPT !.start = "ok"]
            /\ worker' = Worker("loop", "select")
            /\ UNCHANGED stopChan
    /\ UNCHANGED <<reg, nsMetas, peers, local, stopping, tryCheckUnsynced,
                   catchupRunning, watcher, nudges, stoppers, frames, log, probe>>

\* WatchPDLeader(leaderChan, stopChan) of the register: it closes leaderChan
\* once the stop channel is closed
WatchPDLeaderStop ==
    /\ Alive /\ watcher.pc = "running" /\ watcher.leaderChan = "open"
    /\ stopChan = "closed"
    /\ watcher' = [watcher EXCEPT !.leaderChan = "closed"]
    /\ UNCHANGED <<reg, nsMetas, peers, local, stopping, stopChan,
                   tryCheckUnsynced, wg, catchupRunning, coord, worker, nudges,
                   stoppers, frames, log, probe>>

\* lines 155-160: watchPD returns when leaderChan is closed
WatchPDExit ==
    /\ Alive /\ watcher.pc = "running" /\ watcher.leaderChan = "closed"
    /\ watcher' = [watcher EXCEPT !.pc = "exited"]
    /\ wg' = wg - 1
    /\ UNCHANGED <<reg, nsMetas, peers, local, stopping, stopChan,
                   tryCheckUnsynced, coord, catchupRunning, worker, nudges,
                   stoppers, frames, log, probe>>

\* the first node of isr other than self, NoNode when there is none
FirstOther(isr) ==
    IF \E i \in DOMAIN isr : isr[i] # Self
    THEN isr[CHOOSE i \in DOMAIN isr :
                 isr[i] # Self /\ \A j \in DOMAIN isr : isr[j] # Self => i <= j]
    ELSE NoNode

\* a drain that hands the leadership to the head of the ISR
drainTargetHead(isr) == IF isr = <<>> THEN NoNode ELSE isr[1]

\* lines 844-850: the node the drain hands the leadership to
drainTarget(isr) == FirstOther(isr)

\* lines 831-851: the transfers of the drain for one partition
drainOne(meta) ==
    IF FindSlice(meta.RaftNodes, Self) = -1 THEN <<>>
    ELSE IF GetDesp(meta) \notin DOMAIN local THEN <<>>
    ELSE IF getNamespaceRaftLeader(GetDesp(meta)) # GetMyRegID THEN <<>>
    ELSE IF drainTarget(meta.ISR) = NoNode THEN <<>>
    ELSE transferMyNamespaceLeader(meta, drainTarget(meta.ISR), "drain")

RECURSIVE Flatten(_)
Flatten(ss) == IF ss = <<>> THEN <<>> ELSE Head(ss) \o Flatten(Tail(ss))

\* lines 829-852: the transfers of the drain; ok: GetAllNamespaces answered
drainTransfers(ok) ==
    IF ~ok THEN <<>>
    ELSE Flatten([i \in 1..Cardinality(DOMAIN reg) |->
                     drainOne(reg[SetToSeq(DOMAIN reg)[i]])])

\* line 129: the stopping flag is read
StopEnter(s) ==
    /\ Alive /\ coord.start \in {"ok", "failed"}
    /\ stoppers[s] = "idle"
    /\ stoppers' = [stoppers EXCEPT ![s] = IF stopping = 1 THEN "noop"
                                          ELSE "drain"]
    /\ UNCHANGED <<reg, nsMetas, peers, local, stopping, stopChan,
                   tryCheckUnsynced, wg, catchupRunning, coord, watcher, worker,
                   nudges, frames, log, probe>>

\* lines 827-860: prepareLeavingCluster
StopDrain(s, fault) ==
    /\ Alive /\ stoppers[s] = "drain"
    /\ fault \in (IF coord.faults THEN {"", "err"} ELSE {""})
    /\ log' = Logged(drainTransfers(fault = "")
                     \o <<Event("drained", "drain", AbsentMeta(<<"", 0>>), 0, 0,
                                NoNode, 0, IF fault = "" THEN "ok" ELSE "err")>>)
    /\ stopping' = 1
    /\ coord' = [coord EXCEPT !.nsMgr = "stopped",
                              !.drains = coord.drains + 1,
                              !.unregisterCalls = coord.unregisterCalls + 1]
    /\ stoppers' = [stoppers EXCEPT ![s] = "close"]
    /\ UNCHANGED <<reg, nsMetas, peers, local, stopChan, tryCheckUnsynced, wg,
                   catchupRunning, watcher, worker, nudges, frames, probe>>

\* line 133: close(self.stopChan)
StopClose(s) ==
    /\ Alive /\ stoppers[s] = "close"
    /\ stopChan' = CloseChan(stopChan)
    /\ coord' = [coord EXCEPT !.closes = coord.closes + 1]
    /\ stoppers' = [stoppers EXCEPT ![s] = "wait"]
    /\ UNCHANGED <<reg, nsMetas, peers, local, stopping, tryCheckUnsynced, wg,
                   catchupRunning, watcher, worker, nudges, frames, log, probe>>

\* line 134: self.wg.Wait()
StopWait(s) ==
    /\ Alive /\ stoppers[s] = "wait" /\ wg = 0
    /\ stoppers' = [stoppers EXCEPT ![s] = "returned"]
    /\ UNCHANGED <<reg, nsMetas, peers, local, stopping, stopChan,
                   tryCheckUnsynced, wg, catchupRunning, coord, watcher, worker,
                   nudges, frames, log, probe>>

StartStep ==
    \/ \E fault \in {"", "register"} : StartCall(fault)
    \/ StartFinish

StopStep ==
    \/ \E s \in DOMAIN stoppers : StopEnter(s)
    \/ \E s \in DOMAIN stoppers, fault \in {"", "err"} : StopDrain(s, fault)
    \/ \E s \in DOMAIN stoppers : StopClose(s)
    \/ \E s \in DOMAIN stoppers : StopWait(s)

WatchStep ==
    \/ WatchPDLeaderStop
    \/ WatchPDExit

---------------------------------------------------------------------------
(* The environment: the raft engine, the peers, the registry *)

\* a peer applies the join request: self becomes a member next to the ISR's
EnvJoinApplied(d) ==
    /\ Alive /\ d \in DOMAIN local /\ local[d].joinReq # 0
    /\ local' = [local EXCEPT
                    ![d].members = local[d].members
                        \cup {Member(local[d].joinReq, GetMyRegID, d)}
                        \cup (IF d \in DOMAIN reg THEN SeedNodes(reg[d], TRUE)
                              ELSE {}),
                    ![d].joinReq = 0]
    /\ UNCHANGED <<reg, nsMetas, peers, stopping, stopChan, tryCheckUnsynced,
                   wg, catchupRunning, coord, watcher, worker, nudges, stoppers,
                   frames, log, probe>>

\* the local replica catches up with the raft log
EnvSynced(d) ==
    /\ Alive /\ d \in DOMAIN local /\ ~local[d].synced
    /\ local' = [local EXCEPT ![d].synced = TRUE]
    /\ UNCHANGED <<reg, nsMetas, peers, stopping, stopChan, tryCheckUnsynced,
                   wg, catchupRunning, coord, watcher, worker, nudges, stoppers,
                   frames, log, probe>>

\* an election: some member's node leads, or nobody
EnvLeader(d, l) ==
    /\ Alive /\ d \in DOMAIN local /\ local[d].leader # l
    /\ l \in {0} \cup {m.NodeID : m \in local[d].members}
    /\ local' = [local EXCEPT ![d].leader = l]
    /\ UNCHANGED <<reg, nsMetas, peers, stopping, stopChan, tryCheckUnsynced,
                   wg, catchupRunning, coord, watcher, worker, nudges, stoppers,
                   frames, log, probe>>

EnvStep ==
    \/ \E d \in DOMAIN local : EnvJoinApplied(d)
    \/ \E d \in DOMAIN local : EnvSynced(d)
    \/ \E d \in DOMAIN local, l \in 0..3 : EnvLeader(d, l)

---------------------------------------------------------------------------
(* The placement predicates applied to a meta *)

NoProbe == [done |-> FALSE, start |-> FALSE, stop |-> FALSE,
            inRaft |-> <<FALSE, FALSE>>]

\* isNamespaceShouldStart, isNamespaceShouldStop and isMeInRaftGroup on the
\* partition d of the registry
EvalPredicates(d) ==
    /\ ~probe.done /\ d \in DOMAIN reg
    /\ probe' = [done |-> TRUE,
                 start |-> isNamespaceShouldStart(reg[d], peers[d]),
                 stop |-> isNamespaceShouldStop(reg[d], peers[d]),
                 inRaft |-> isMeInRaftGroup(reg[d], peers[d])]
    /\ UNCHANGED <<reg, nsMetas, peers, local, stopping, stopChan,
                   tryCheckUnsynced, wg, catchupRunning, coord, watcher, worker,
                   nudges, stoppers, frames, log>>

---------------------------------------------------------------------------
(* The coordinator from its construction on *)

PartitionMeta(name, part, replica, raftNodes, isr, raftIDs, removings) ==
    [Name |-> name, Partition |-> part, Replica |-> replica,
     RaftNodes |-> raftNodes, ISR |-> isr, RaftIDs |-> raftIDs,
     Removings |-> removings]

\* every peer holds the members the meta names
PeersOf(meta) ==
    [n \in Nodes |->
        PeerAnswer(TRUE, {Member(meta.RaftIDs[nid], ExtractRegIDFromGenID(nid),
                                 GetDesp(meta)) : nid \in DOMAIN meta.RaftIDs})]

\* callers of Stop
NumStoppers == 2

IDsAll == ("n1" :> 1) @@ ("n2" :> 2) @@ ("n3" :> 3)

\* the registries the coordinator is started on: one partition of namespace "a"
StartMetas ==
    {PartitionMeta("a", 0, 2, <<"n1", "n2">>, <<"n2", "n1">>,
                   ("n1" :> 1) @@ ("n2" :> 2), <<>>),
     PartitionMeta("a", 0, 1, <<"n2">>, <<"n2">>, ("n2" :> 2), <<>>)}

InitCoordinator(regs, faults, regIDs, nStoppers, trace) ==
    /\ reg \in regs
    /\ nsMetas = {d[1] : d \in DOMAIN reg}
    /\ peers = [d \in DOMAIN reg |-> PeersOf(reg[d])]
    /\ local = <<>>
    /\ stopping = 0
    /\ stopChan = "open"
    /\ tryCheckUnsynced = 0
    /\ wg = 0
    /\ catchupRunning = 0
    /\ coord \in [start : {"new"}, startErr : {""}, regID : regIDs,
                  faults : faults,
                  nsMgr : {"new"}, registerCalls : {0}, unregisterCalls : {0},
                  drains : {0}, closes : {0}, trace : {trace}]
    /\ watcher = [pc |-> "none", leaderChan |-> "open"]
    /\ worker = Worker("none", "none")
    /\ nudges = 0
    /\ stoppers = [s \in 1..nStoppers |-> "idle"]
    /\ frames = EmptyBag
    /\ log = <<>>
    /\ probe = NoProbe

Init ==
    InitCoordinator({(GetDesp(m) :> m) : m \in StartMetas}, {TRUE}, {0, 1},
                    NumStoppers, FALSE)

\* a single pass at a time never meets the gate of ensureJoinNamespaceGroup,
\* and the registry keeps the meta it started with
Next ==
    \/ StartStep
    \/ LoadStep
    \/ \E f \in BagToSet(frames) : JoinLoop(f)
    \/ \E f \in BagToSet(frames) : JoinTimeout(f)
    \/ \E f \in BagToSet(frames) : JoinWaitTimer(f)
    \/ \E f \in BagToSet(frames) : JoinWaitStop(f)
    \/ \E f \in BagToSet(frames) : JoinEnd(f)
    \/ CheckStep
    \/ LoopStep
    \/ NudgePost
    \/ StopStep
    \/ WatchStep
    \/ EnvStep

Spec == Init /\ [][Next]_vars

\* C2: however the calls to Stop on a started coordinator interleave, the drain
\* runs once, Unregister is called once and the stop channel is closed once,
\* never a second time
C2_StopOnce ==
    coord.start = "ok" =>
        /\ coord.drains <= 1
        /\ coord.unregisterCalls <= 1
        /\ coord.closes <= 1
        /\ stopChan # "panic"

\* C3: once a call to Stop has returned, the watcher of the PD leader, the main
\* loop and every nudge goroutine of tryCheckNamespaces have ended
C3_NoWorkerAfterStop ==
    (coord.start = "ok" /\ \E s \in DOMAIN stoppers : stoppers[s] = "returned") =>
        /\ watcher.pc = "exited"
        /\ worker.pc = "exited"
        /\ nudges = 0

\* C25: the stop channel is closed at most once also when Stop is called after
\* a Start that failed on its initial load: the close of Stop does not meet a
\* channel that Start has closed already
C25_CloseOnceAfterFailedLoad ==
    coord.startErr = "load" => stopChan # "panic"

\* the invocations of ensureJoinNamespaceGroup that are about to post a nudge
\* from inside the pass
AboutToPost ==
    {f \in BagToSet(frames) :
        f.pc = "busy" \/ (f.pc = "end" /\ f.joinErr # "nil")}

\* C22: the nudge queue holds at most one pending nudge, and a post never
\* blocks: with a nudge pending or not, the worker that posts from inside its
\* pass and every nudge goroutine can take their step, and the worker is never
\* left with no step to take while the process lives and it has not exited
C22_NudgeNeverBlocks ==
    /\ tryCheckUnsynced \in {0, 1}
    /\ Alive =>
          /\ \A f \in AboutToPost : ENABLED JoinEnd(f) \/ ENABLED JoinBusy(f)
          /\ nudges > 0 => ENABLED NudgePost
          /\ (worker.pc = "select" /\ tryCheckUnsynced = 1) => ENABLED LoopNudge

\* C22's case: the worker is about to post from inside its pass while a
\* nudge is pending, and a nudge goroutine is about to post as well
C22_Witness ==
    /\ Alive /\ tryCheckUnsynced = 1
    /\ AboutToPost # {}
    /\ worker.by = "loop" /\ worker.pc = "join"
    /\ nudges > 0

\* C11: Start returns an error and never spawns the main loop when RegID is 0,
\* when Register fails or when the initial load fails; with RegID 0 it returns
\* before Register is called, the namespace manager is started or any worker
\* is spawned
C11_StartErrors ==
    /\ coord.regID <= 0 => coord.start \in {"new", "failed"}
    /\ coord.start = "failed" <=> coord.startErr # ""
    /\ coord.start = "failed" =>
          /\ coord.regID <= 0 <=> coord.startErr = "regid"
          /\ worker.by # "loop"
          /\ wg <= 1
    /\ coord.startErr \in {"regid", "register"} =>
          /\ coord.nsMgr # "started"
          /\ watcher.pc = "none" /\ worker.by = "none" /\ wg = 0
    /\ coord.startErr = "regid" => coord.registerCalls = 0
    /\ coord.startErr = "register" => coord.registerCalls = 1
    /\ coord.startErr = "load" => watcher.pc # "none" /\ stopChan # "open"

\* C11's case: the initial load failed after the watcher was spawned, and
\* Start returned its error without spawning the main loop
C11_Witness ==
    /\ coord.startErr = "load" /\ coord.start = "failed"
    /\ watcher.pc = "running" /\ worker.by = "none" /\ wg = 1

---------------------------------------------------------------------------
(* The placement predicates over all small metas *)

\* the sequences without repetition over the nodes
NodeSeqs ==
    {s \in UNION {[1..n -> Nodes] : n \in 0..3} :
        \A i, j \in DOMAIN s : s[i] = s[j] => i = j}

PredRaftNodes == {<<>>, <<"n2", "n3">>, <<"n1", "n2", "n3">>, <<"n2", "n1">>}

PredRaftIDs ==
    {("n2" :> 2) @@ ("n3" :> 3), IDsAll, ("n1" :> 4) @@ ("n2" :> 2) @@ ("n3" :> 3)}

PredRemovings == {<<>>, ("n1" :> 1), ("n1" :> 4), ("n2" :> 2)}

PredMetas ==
    {PartitionMeta("a", 0, 2, rn, isr, ids, rm) :
        rn \in PredRaftNodes, isr \in NodeSeqs, ids \in PredRaftIDs,
        rm \in PredRemovings}

PredAnswers ==
    {PeerAnswer(FALSE, {}), PeerAnswer(TRUE, {}),
     PeerAnswer(TRUE, {Member(1, 1, <<"a", 0>>), Member(2, 2, <<"a", 0>>)}),
     PeerAnswer(TRUE, {Member(4, 1, <<"a", 0>>)}),
     PeerAnswer(TRUE, {Member(1, 2, <<"a", 0>>), Member(4, 3, <<"a", 0>>)})}

\* a started coordinator whose loop has taken a tick, on the registry r with the
\* namespace metas of extraNS besides
InitRunningNS(r, extraNS, ans, replicas, faults) ==
    /\ reg = r
    /\ nsMetas = {d[1] : d \in DOMAIN r} \cup extraNS
    /\ peers = ans
    /\ local = replicas
    /\ stopping = 0
    /\ stopChan = "open"
    /\ tryCheckUnsynced = 0
    /\ wg = 2
    /\ catchupRunning = 0
    /\ coord = [start |-> "ok", startErr |-> "", regID |-> 1, faults |-> faults,
                nsMgr |-> "started", registerCalls |-> 1, unregisterCalls |-> 0,
                drains |-> 0, closes |-> 0, trace |-> TRUE]
    /\ watcher = [pc |-> "running", leaderChan |-> "open"]
    /\ worker = Worker("loop", "load")
    /\ nudges = 0
    /\ stoppers = [s \in 1..1 |-> "idle"]
    /\ frames = EmptyBag
    /\ log = <<>>
    /\ probe = NoProbe

InitRunning(r, ans, replicas, faults) == InitRunningNS(r, {}, ans, replicas, faults)

InitPred ==
    \E m \in PredMetas, a2 \in PredAnswers, a3 \in PredAnswers :
        InitRunning((GetDesp(m) :> m),
                    (GetDesp(m) :> [n \in Nodes |->
                                       IF n = "n2" THEN a2
                                       ELSE IF n = "n3" THEN a3
                                       ELSE PeerAnswer(TRUE, {})]),
                    <<>>, FALSE)

NextPred == \E d \in DOMAIN reg : EvalPredicates(d)

SpecPred == InitPred /\ [][NextPred]_vars

\* the meta and the peers' answers the predicates were applied to
ProbedMeta == reg[<<"a", 0>>]

ProbedAnswers == peers[<<"a", 0>>]

\* some ISR peer other than self answers and lists (self's RegID, RaftIDs[self])
SomePeerListsMe(meta, ans) ==
    \E n \in Range(meta.ISR) \ {Self} :
        /\ ans[n].ok
        /\ \E m \in ans[n].members :
               m.NodeID = GetMyRegID /\ m.ID = MapGet(meta.RaftIDs, Self)

\* some ISR peer other than self does not answer
SomePeerFails(meta, ans) == \E n \in Range(meta.ISR) \ {Self} : ~ans[n].ok

\* C4: shouldStop is true exactly when self is in Removings under its current
\* replica id and isMeInGroup says no without an error
C4_ShouldStopWhenRemoved ==
    probe.done =>
        (probe.stop <=>
            /\ Self \in DOMAIN ProbedMeta.Removings
            /\ ProbedMeta.Removings[Self] = MapGet(ProbedMeta.RaftIDs, Self)
            /\ ~SomePeerListsMe(ProbedMeta, ProbedAnswers)
            /\ ~SomePeerFails(ProbedMeta, ProbedAnswers))

\* C5: shouldStart is false when self is not in RaftNodes; else true when self
\* is not in Removings or is there under another replica id; else it is
\* isMeInGroup: some ISR peer other than self lists (self's RegID, RaftIDs[self])
C5_ShouldStart ==
    probe.done =>
        /\ probe.start =
             IF Self \notin Range(ProbedMeta.RaftNodes) THEN FALSE
             ELSE IF Self \notin DOMAIN ProbedMeta.Removings THEN TRUE
             ELSE IF ProbedMeta.Removings[Self] # MapGet(ProbedMeta.RaftIDs, Self)
             THEN TRUE
             ELSE probe.inRaft[1]
        /\ probe.inRaft[1] = SomePeerListsMe(ProbedMeta, ProbedAnswers)

\* C5's case: a removing node under its current replica id that a peer still
\* lists, while another peer is unreachable
C5_Witness ==
    /\ probe.done /\ probe.start
    /\ Self \in Range(ProbedMeta.RaftNodes)
    /\ IsRemovingSelf(ProbedMeta)
    /\ SomePeerFails(ProbedMeta, ProbedAnswers)

---------------------------------------------------------------------------
(* ensureJoinNamespaceGroup under concurrent callers.  In this file only the
   load pass calls it, one invocation at a time; catchupRunning and its gate
   are there for callers that run side by side, which are what this part
   adds. *)

\* invocations in flight or returned and not yet collected, at most
NumCallers == 6

\* the partition the callers join: a replica that its group has not taken in yet
JoinMeta ==
    PartitionMeta("a", 0, 2, <<"n1", "n2">>, <<"n2">>, ("n1" :> 1) @@ ("n2" :> 2),
                  <<>>)

\* the metas a caller passes: the registry's, one whose RaftIDs lack self, one
\* removing self
JoinMetas ==
    {JoinMeta,
     [JoinMeta EXCEPT !.RaftIDs = ("n2" :> 2)],
     [JoinMeta EXCEPT !.Removings = ("n1" :> 1)]}

\* lines 661-690: a caller other than the pass enters
CallEnsureJoin(meta) ==
    /\ Alive /\ BagCardinality(frames) < NumCallers
    /\ GetDesp(meta) \in DOMAIN local
    /\ LET e == ensureJoinEnter("call", meta)
       IN /\ frames' = frames (+) SetToBag({e.frame})
          /\ catchupRunning' = e.running
    /\ UNCHANGED <<reg, nsMetas, peers, local, stopping, stopChan,
                   tryCheckUnsynced, wg, coord, watcher, worker, nudges, stoppers,
                   log, probe>>

\* the caller has its result
CallReturn(f) ==
    /\ f.owner = "call" /\ f.pc = "ret"
    /\ frames' = frames (-) SetToBag({f})
    /\ UNCHANGED <<reg, nsMetas, peers, local, stopping, stopChan,
                   tryCheckUnsynced, wg, catchupRunning, coord, watcher, worker,
                   nudges, stoppers, log, probe>>

InitJoin ==
    InitRunning((GetDesp(JoinMeta) :> JoinMeta),
                (GetDesp(JoinMeta) :> PeersOf(JoinMeta)),
                (GetDesp(JoinMeta) :>
                    Replica(1, {Member(2, 2, GetDesp(JoinMeta))}, 2, FALSE, TRUE)),
                FALSE)

NextJoin ==
    \/ \E m \in JoinMetas : CallEnsureJoin(m)
    \/ \E f \in BagToSet(frames) : CallReturn(f)
    \/ \E f \in BagToSet(frames) : JoinBusy(f)
    \/ \E f \in BagToSet(frames) : JoinConfInvalid(f)
    \/ \E f \in BagToSet(frames) : JoinLoop(f)
    \/ \E f \in BagToSet(frames) : JoinTimeout(f)
    \/ \E f \in BagToSet(frames) : JoinWaitTimer(f)
    \/ \E f \in BagToSet(frames) : JoinEnd(f)

SpecJoin == InitJoin /\ [][NextJoin]_vars

\* the number of invocations in flight at one of the places pcs
InFlight(pcs) == BagCardinality([f \in FramesIn(pcs) |-> frames[f]])

\* C1: at most MAX_RAFT_JOIN_RUNNING invocations of ensureJoinNamespaceGroup are
\* past the catchupRunning gate and still at work; an invocation whose increment
\* took catchupRunning past MAX_RAFT_JOIN_RUNNING is turned away: it sends no
\* join request, and it returns CatchupRunningBusy after posting a nudge
C1_JoinGate ==
    /\ InFlight({"conf", "loop", "wait", "end"}) <= MAX_RAFT_JOIN_RUNNING
    /\ \A f \in BagToSet(frames) :
          f.over =>
              /\ f.pc \in {"busy", "ret"}
              /\ ~f.sent
              /\ f.pc = "ret" => f.res = "CatchupRunningBusy" /\ f.nudged

\* C1's case: five invocations past the gate and a sixth one turned away
C1_Witness ==
    /\ InFlight({"conf", "loop", "wait", "end"}) = MAX_RAFT_JOIN_RUNNING
    /\ \E f \in BagToSet(frames) :
          /\ f.over
          /\ f.pc = "ret" /\ f.res = "CatchupRunningBusy" /\ f.nudged

---------------------------------------------------------------------------
(* One partition in every small placement, the main loop about to run a pass *)

ReconRaftNodes == {<<"n1", "n2">>, <<"n2", "n3">>}

ReconISRs ==
    {<<>>, <<"n1">>, <<"n2">>, <<"n1", "n2">>, <<"n2", "n1">>, <<"n1", "n2", "n3">>}

ReconRaftIDs ==
    {IDsAll, ("n1" :> 4) @@ ("n2" :> 2) @@ ("n3" :> 3), ("n2" :> 2) @@ ("n3" :> 3),
     ("n1" :> 1) @@ ("n3" :> 3)}

ReconRemovings == {<<>>, ("n1" :> 1), ("n3" :> 3)}

ReconMetas ==
    {PartitionMeta("a", 0, rep, rn, isr, ids, rm) :
        rep \in {1, 2}, rn \in ReconRaftNodes, isr \in ReconISRs,
        ids \in ReconRaftIDs, rm \in ReconRemovings}

\* the member lists a replica created under replica id 1 can have
ReconMembers ==
    LET M(i) == Member(i, i, <<"a", 0>>)
    IN {{M(1), M(2)}, {M(2), M(3)}, {M(1), M(2), M(3)}}

\* no replica, or one in some raft state
ReconLocals ==
    {<<>>}
    \cup {(<<"a", 0>> :> Replica(1, ms, ld, TRUE, TRUE)) :
             ms \in ReconMembers, ld \in {0, 1, 2}}
    \cup {(<<"a", 0>> :> Replica(1, {Member(1, 1, <<"a", 0>>)}, 1, FALSE, TRUE)),
          (<<"a", 0>> :> Replica(1, {Member(1, 1, <<"a", 0>>)}, 1, TRUE, TRUE)),
          (<<"a", 0>> :> Replica(1, {Member(1, 1, <<"a", 0>>)}, 0, FALSE, FALSE))}

\* what the peers answer: the members the meta names, or nobody
ReconAnswers(meta) ==
    {PeersOf(meta), [n \in Nodes |-> PeerAnswer(TRUE, {})]}

\* the registry lists the partition, or not it but its namespace, or neither
InitRecon ==
    \/ \E m \in ReconMetas, r \in ReconLocals :
       \E ans \in ReconAnswers(m) :
          /\ IsRemovingSelf(m) \/ ans = PeersOf(m)
          /\ InitRunning((GetDesp(m) :> m), (GetDesp(m) :> ans), r, TRUE)
    \/ \E r \in ReconLocals \ {<<>>}, extraNS \in {{}, {"a"}} :
          InitRunningNS(<<>>, extraNS, (<<"a", 0>> :> PeersOf(JoinMeta)), r, TRUE)

NextRecon ==
    \/ LoadStep
    \/ \E f \in BagToSet(frames) : JoinConfInvalid(f)
    \/ \E f \in BagToSet(frames) : JoinLoop(f)
    \/ \E f \in BagToSet(frames) : JoinTimeout(f)
    \/ \E f \in BagToSet(frames) : JoinWaitTimer(f)
    \/ \E f \in BagToSet(frames) : JoinWaitStop(f)
    \/ \E f \in BagToSet(frames) : JoinEnd(f)
    \/ CheckStep
    \/ \E s \in DOMAIN stoppers : StopEnter(s)
    \/ \E s \in DOMAIN stoppers, fault \in {"", "err"} : StopDrain(s, fault)
    \/ \E s \in DOMAIN stoppers : StopClose(s)

SpecRecon == InitRecon /\ [][NextRecon]_vars

\* the places of the log where something of the kind ev was issued
Issued(ev) == {i \in DOMAIN log : log[i].ev = ev}

\* C6: a remove-member proposal of the member sync is issued only when the
\* members outnumber meta.Replica and len(meta.ISR) >= meta.Replica; the load
\* pass proposes to remove self whenever len(meta.ISR) >= meta.Replica, and the
\* reconcile of a node outside a non-empty ISR whatever the two counts are
C6_RemoveGuards ==
    \A i \in Issued("remove") :
        /\ log[i].by \in {"sync", "load", "notinisr", "absent"}
        /\ log[i].by = "sync" =>
               log[i].nmem > log[i].replica /\ log[i].isrLen >= log[i].replica
        /\ log[i].by = "load" => log[i].isrLen >= log[i].replica
        /\ log[i].by = "notinisr" =>
               log[i].isrLen > 0 /\ Self \notin Range(reg[log[i].d].ISR)

\* C6's case: the member sync proposes to remove another member
C6_Witness ==
    \E i \in Issued("remove") :
        /\ log[i].by = "sync" /\ log[i].node # GetMyRegID
        /\ log[i].nmem > log[i].replica /\ log[i].isrLen >= log[i].replica

\* C6 as stated: every remove-member proposal (of another member or of self,
\* from the load pass or from the reconcile) is issued only when the members
\* outnumber meta.Replica and len(meta.ISR) >= meta.Replica
C6_RemoveOnlyOverQuorum ==
    \A i \in Issued("remove") :
        log[i].nmem > log[i].replica /\ log[i].isrLen >= log[i].replica

\* C7: a pass transfers the leadership only to ISR[0] and only when ISR[0] is
\* not self; the drain of Stop transfers it to the first ISR node other than
\* self, wherever self stands in the ISR
C7_TransferTargets ==
    \A i \in Issued("transfer") :
        /\ log[i].by \in {"steer", "drain"}
        /\ log[i].by = "steer" => log[i].isr0 # Self /\ log[i].nid = log[i].isr0
        /\ log[i].by = "drain" =>
               /\ log[i].nid # Self
               /\ log[i].nid = FirstOther(reg[log[i].d].ISR)

\* C7's case: the drain hands the leadership over although ISR[0] is self
C7_Witness ==
    \E i \in Issued("transfer") :
        log[i].by = "drain" /\ log[i].isr0 = Self /\ log[i].nid # Self

\* C7 as stated: whenever a leader transfer is issued, in a pass or in the
\* drain, ISR[0] of the partition's meta is not self
C7_NoTransferWhenHead ==
    \A i \in Issued("transfer") : log[i].isr0 # Self

\* C9: a pass that has found a replica to keep leaves it with the ReplicaID
\* meta.RaftIDs[self]: a replica of another ReplicaID is destroyed and created
\* anew
C9_MismatchRecreated ==
    worker.pc = "select" =>
        \A d \in DOMAIN local \cap DOMAIN reg :
            (/\ Self \in DOMAIN reg[d].RaftIDs
             /\ \E i \in Issued("ensure") : log[i].d = d)
            => local[d].rid = reg[d].RaftIDs[Self]

\* the events the reconcile of the replica taken up at place i has issued
IssuedBy(i) ==
    {j \in DOMAIN log :
        /\ j > i /\ log[j].by # "drain"
        /\ ~\E k \in Issued("check") : i < k /\ k < j}

\* C12: the reconcile removes a running replica from raft and destroys it for
\* registry absence exactly when GetNamespacePartInfo and GetNamespaceMetaInfo
\* both return ErrKeyNotFound; when a lookup fails otherwise or the namespace
\* meta exists it proposes nothing, destroys nothing and schedules a retry
C12_AbsenceRemoval ==
    \A i \in Issued("check") :
        LET mine == IssuedBy(i)
            absent == {j \in mine : log[j].by = "absent"}
        IN /\ log[i].by # "absent" => absent = {}
           /\ log[i].by = "absent" =>
                 /\ log[i].d \notin DOMAIN local
                 /\ nudges >= 1
                 /\ log[i].res = "ready" =>
                        /\ mine = {i + 1, i + 2}
                        /\ log[i + 1].ev = "remove" /\ log[i + 1].by = "absent"
                        /\ log[i + 1].id = log[i].id
                        /\ log[i + 1].node = GetMyRegID
                        /\ log[i + 2].ev = "destroy" /\ log[i + 2].by = "absent"
                 /\ log[i].res # "ready" =>
                        mine = {i + 1} /\ log[i + 1].ev = "destroy"
           /\ log[i].by \in {"parterr", "nserr", "nsfound"} =>
                 /\ mine = {}
                 /\ log[i].d \in DOMAIN local
                 /\ nudges >= 1

\* C12's case: a ready replica the registry knows nothing of any more has been
\* removed from raft and destroyed
C12_Witness ==
    \E i \in Issued("check") :
        /\ log[i].by = "absent" /\ log[i].res = "ready"
        /\ i + 2 \in Issued("destroy")
        /\ log[i].d \notin DOMAIN local

\* the reconcile found self missing from the non-empty ISR of the meta
MissingFromISR(i) ==
    /\ log[i].isrLen > 0
    /\ Self \notin Range(reg[log[i].d].ISR)

\* C14: a replica that reports no leader is skipped for the round: no
\* proposal at all.  A replica that reports a leader other than self gets no
\* add-member proposal, no removal of another member and no leader transfer,
\* but the check that self is missing from a non-empty ISR comes before the
\* check that self leads: a ready replica that reports any leader, self or
\* not, and is missing from the ISR proposes to remove itself
C14_SkipUnlessLeader ==
    \A i \in Issued("check") :
        log[i].by = "found" =>
            LET mine == IssuedBy(i)
            IN /\ log[i].node = 0 => mine = {}
               /\ log[i].node \notin {0, GetMyRegID} =>
                     \A j \in mine :
                         /\ log[j].ev = "remove" /\ log[j].by = "notinisr"
                         /\ log[j].node = GetMyRegID /\ log[j].id = log[i].id
               /\ (\E j \in mine : log[j].by = "notinisr") => MissingFromISR(i)
               /\ (log[i].node # 0 /\ MissingFromISR(i)) =>
                     IF log[i].res = "ready"
                     THEN /\ mine = {i + 1}
                          /\ log[i + 1].ev = "remove"
                          /\ log[i + 1].by = "notinisr"
                     ELSE mine = {}

\* C14's case: a follower that the ISR has dropped proposes to remove itself
C14_Witness ==
    \E i \in Issued("check") :
        /\ log[i].by = "found"
        /\ log[i].node \notin {0, GetMyRegID}
        /\ i + 1 \in Issued("remove")
        /\ log[i + 1].by = "notinisr" /\ log[i + 1].node = GetMyRegID

\* C14 as stated: a replica that reports no leader or a leader other than
\* self gets no add-member, remove-member (remove-self included) or
\* leader-transfer proposal in that round
C14_NoProposalUnlessLeader ==
    \A i \in Issued("check") :
        (log[i].by = "found" /\ log[i].node # GetMyRegID) =>
            \A j \in IssuedBy(i) : log[j].ev \notin {"add", "remove", "transfer"}

\* the reconcile at place i of the log met the steering case: self leads, is
\* in the ISR, the ISR is full and ISR[0] is another node
Steering(i) ==
    /\ log[i].ev = "check" /\ log[i].by = "found"
    /\ log[i].node = GetMyRegID
    /\ Self \in Range(reg[log[i].d].ISR)
    /\ log[i].isrLen >= log[i].replica
    /\ log[i].isr0 # Self

MemberSyncing(i) ==
    /\ log[i].ev = "check" /\ log[i].by = "found"
    /\ log[i].node = GetMyRegID
    /\ Self \in Range(reg[log[i].d].ISR)
    /\ ~(log[i].isrLen >= log[i].replica /\ log[i].isr0 # Self)

\* C16: in the member sync additions come before removals: when some entry
\* of meta.RaftIDs has no member of its ID, or len(members) <= meta.Replica,
\* or len(ISR) < meta.Replica, the pass proposes no removal for the shard,
\* only the additions of the missing replicas, and schedules another
\* reconciliation
C16_AddsBeforeRemoves ==
    \A i \in Issued("check") :
        LET meta == reg[log[i].d]
            missing == MissingReplicas(meta, local[log[i].d].members)
        IN (/\ MemberSyncing(i)
            /\ \/ missing # {}
               \/ log[i].nmem <= log[i].replica
               \/ log[i].isrLen < log[i].replica)
           => /\ \A j \in IssuedBy(i) :
                    /\ log[j].ev = "add" /\ log[j].by = "sync"
                    /\ \E nid \in missing :
                          /\ log[j].id = meta.RaftIDs[nid]
                          /\ log[j].node = ExtractRegIDFromGenID(nid)
              /\ nudges >= 1

\* C16's case: a replica was missing and a member was to be removed: the pass
\* proposed the addition and left the removal for a later pass
C16_Witness ==
    \E i \in Issued("check") :
        /\ MemberSyncing(i)
        /\ ExtraMembers(reg[log[i].d], local[log[i].d].members) # {}
        /\ log[i].nmem > log[i].replica /\ log[i].isrLen >= log[i].replica
        /\ IssuedBy(i) # {}
        /\ \A j \in IssuedBy(i) : log[j].ev = "add"
        /\ nudges >= 1

\* the member sync at place i of the log took its over-provisioned branch
OverProvisioned(i) ==
    /\ MemberSyncing(i)
    /\ MissingReplicas(reg[log[i].d], local[log[i].d].members) = {}
    /\ log[i].nmem > log[i].replica
    /\ log[i].isrLen >= log[i].replica

\* C17: in the over-provisioned branch of the member sync, remove-member is
\* proposed for exactly the members m that no entry of RaftIDs has the ID of
\* or that some entry of Removings matches by (m.ID, m.NodeID); the member
\* sync never proposes to remove a member whose ID is in RaftIDs and that no
\* entry of Removings matches
C17_ExactRemovals ==
    /\ \A i \in Issued("check") :
          OverProvisioned(i) =>
              LET meta == reg[log[i].d]
                  unknown(m) == \A nid \in DOMAIN meta.RaftIDs :
                                    meta.RaftIDs[nid] # m.ID
                  removing(m) == \E nid \in DOMAIN meta.Removings :
                                     /\ meta.Removings[nid] = m.ID
                                     /\ ExtractRegIDFromGenID(nid) = m.NodeID
              IN /\ \A j \in IssuedBy(i) :
                        log[j].ev = "remove" /\ log[j].by = "sync"
                 /\ {<<log[j].id, log[j].node>> : j \in IssuedBy(i)}
                      = {<<m.ID, m.NodeID>> :
                            m \in {x \in local[log[i].d].members :
                                      unknown(x) \/ removing(x)}}
    /\ \A j \in Issued("remove") :
          log[j].by = "sync" =>
              \/ log[j].id \notin Range(reg[log[j].d].RaftIDs)
              \/ \E nid \in DOMAIN reg[log[j].d].Removings :
                     /\ reg[log[j].d].Removings[nid] = log[j].id
                     /\ ExtractRegIDFromGenID(nid) = log[j].node

\* C17's case: one member unknown to RaftIDs and one that Removings matches
\* are proposed for removal, the third member is kept
C17_Witness ==
    \E i \in Issued("check") :
        /\ OverProvisioned(i)
        /\ Cardinality(IssuedBy(i)) = 2
        /\ log[i].nmem = 3
        /\ \E j \in IssuedBy(i) :
               log[j].id \notin Range(reg[log[i].d].RaftIDs)
        /\ \E j \in IssuedBy(i) :
               log[j].id \in Range(reg[log[i].d].RaftIDs)

\* what ensureJoinNamespaceGroup can return
JoinResults == {"nil", "WaitingSync", "Exiting", "CatchupRunningBusy", "ConfInvalid"}

\* C18: for a node that is not being removed, ensureJoinNamespaceGroup
\* returns success only if the member list holds a member with self's RegID,
\* the partition's Desp and the ID meta.RaftIDs[self], the members are more
\* than len(ISR)/2 and the replica is raft-synced; else it returns
\* WaitingSync, Exiting, CatchupRunningBusy or ConfInvalid, and with
\* WaitingSync a reconciliation is scheduled
C18_JoinSuccess ==
    \A i \in Issued("joinret") :
        LET d == log[i].d
            meta == reg[d]
        IN /\ log[i].res \in JoinResults
           /\ (log[i].res = "nil" /\ ~IsRemovingSelf(meta)) =>
                 /\ d \in DOMAIN local
                 /\ Self \in DOMAIN meta.RaftIDs
                 /\ \E m \in local[d].members :
                        /\ m.NodeID = GetMyRegID
                        /\ m.GroupName = d
                        /\ m.ID = meta.RaftIDs[Self]
                 /\ Cardinality(local[d].members) > Len(meta.ISR) \div 2
                 /\ local[d].synced
           /\ log[i].res = "WaitingSync" => tryCheckUnsynced >= 1
           /\ log[i].res = "ConfInvalid" => Self \notin DOMAIN meta.RaftIDs
           /\ log[i].res = "Exiting" => stopChan = "closed"

\* C18's case: a replica that has joined and is synced: the call returns
\* success for a node that is not being removed
C18_Witness ==
    \E i \in Issued("joinret") :
        /\ log[i].res = "nil" /\ ~IsRemovingSelf(reg[log[i].d])
        /\ local[log[i].d].synced
        /\ Len(reg[log[i].d].ISR) >= 2

\* the nodes the join request at place i of the log could go to, in order
TargetsAt(i) ==
    LET meta == reg[log[i].d]
    IN IF Len(meta.ISR) = 0 THEN meta.RaftNodes ELSE meta.ISR

\* whether the node n holds a member of the local member list of d
IsMemberNode(d, n) ==
    \E m \in local[d].members : m.NodeID = ExtractRegIDFromGenID(n)

\* the join request at place i is the first one of its call
FirstOfCall(i) ==
    \E e \in Issued("ensure") :
        e < i /\ \A k \in Issued("join") : ~(e < k /\ k < i)

\* C19: every join request goes to a node of the ISR (of RaftNodes when the
\* ISR is empty) other than self; it goes to a node that holds no member of
\* the local member list whenever the list of targets has one besides self,
\* the first request of a call to the first such node; when every target
\* besides self holds a member the request goes to one of these
C19_JoinTarget ==
    \A i \in Issued("join") :
        LET d == log[i].d
            targets == TargetsAt(i)
            fresh == {k \in DOMAIN targets :
                        targets[k] # Self /\ ~IsMemberNode(d, targets[k])}
        IN /\ log[i].nid \in Range(targets)
           /\ log[i].nid # Self
           /\ log[i].id = reg[d].RaftIDs[Self] /\ log[i].node = GetMyRegID
           /\ fresh # {} => ~IsMemberNode(d, log[i].nid)
           /\ (fresh # {} /\ FirstOfCall(i)) =>
                 \E k \in fresh :
                     log[i].nid = targets[k] /\ \A k2 \in fresh : k <= k2
           /\ fresh = {} => IsMemberNode(d, log[i].nid)

\* C19's case: every ISR node besides self holds a member already, and the
\* join request goes to one of them
C19_Witness ==
    \E i \in Issued("join") :
        /\ IsMemberNode(log[i].d, log[i].nid)
        /\ log[i].nid # Self
        /\ Len(reg[log[i].d].ISR) > 0
        /\ log[i].nid \in Range(reg[log[i].d].ISR)

\* C19 as stated: every join request goes to a node of the ISR (of RaftNodes
\* when the ISR is empty) that is not self and whose RegID is not the NodeID
\* of any member of the local member list
C19_NeverToMember ==
    \A i \in Issued("join") :
        /\ log[i].nid \in Range(TargetsAt(i))
        /\ log[i].nid # Self
        /\ ~IsMemberNode(log[i].d, log[i].nid)

\* C20: once the stop channel is closed the pass in progress aborts: after
\* ensureJoinNamespaceGroup has returned NamespaceExiting from its wait, the
\* pass sends no join request, creates and starts no replica and issues no
\* add-member, remove-member or leader-transfer proposal for any partition
C20_StopAbortsPass ==
    \A i \in Issued("joinret") :
        log[i].res = "Exiting" =>
            \A j \in DOMAIN log :
                j > i => log[j].ev \notin {"join", "create", "add", "remove",
                                           "transfer"}

\* the transfers the drain has issued for the partition d
DrainTransfers(d) ==
    {j \in Issued("transfer") : log[j].by = "drain" /\ log[j].d = d}

\* the drain can hand the partition d over: the registry lists it with self in
\* RaftNodes, self leads its replica, and the first ISR node other than self
\* has a replica id
Drainable(d) ==
    /\ d \in DOMAIN reg /\ d \in DOMAIN local
    /\ Self \in Range(reg[d].RaftNodes)
    /\ local[d].leader = GetMyRegID
    /\ \E k \in DOMAIN reg[d].ISR :
          /\ reg[d].ISR[k] # Self
          /\ \A k2 \in 1..(k - 1) : reg[d].ISR[k2] = Self
          /\ reg[d].ISR[k] \in DOMAIN reg[d].RaftIDs

\* C21: the drain of Stop issues exactly one leader transfer, to the first ISR
\* node other than self, for every partition the registry lists with self in
\* RaftNodes whose replica self leads (and whose target has a replica id),
\* provided GetAllNamespaces answered; it issues no transfer for any other
\* replica; after the transfers the namespace manager is stopped and
\* Unregister is called, whether or not the registry read failed
C21_Drain ==
    \A k \in Issued("drained") :
        /\ coord.nsMgr = "stopped" /\ coord.unregisterCalls = 1 /\ stopping = 1
        /\ \A j \in Issued("transfer") : log[j].by = "drain" => j < k
        /\ \A d \in DOMAIN reg \cup DOMAIN local :
              IF log[k].res = "ok" /\ Drainable(d)
              THEN /\ Cardinality(DrainTransfers(d)) = 1
                   /\ \A j \in DrainTransfers(d) :
                         /\ log[j].nid # Self
                         /\ \E p \in DOMAIN reg[d].ISR :
                               /\ reg[d].ISR[p] = log[j].nid
                               /\ \A p2 \in 1..(p - 1) : reg[d].ISR[p2] = Self
                         /\ log[j].node = ExtractRegIDFromGenID(log[j].nid)
                         /\ log[j].id = reg[d].RaftIDs[log[j].nid]
              ELSE DrainTransfers(d) = {}

\* C21's case: self leads and heads the ISR, the drain hands the leadership to
\* the second ISR node, then stops the namespace manager and unregisters
C21_Witness ==
    \E k \in Issued("drained") :
        /\ log[k].res = "ok"
        /\ \E d \in DOMAIN reg :
              /\ Drainable(d) /\ Len(reg[d].ISR) >= 2 /\ reg[d].ISR[1] = Self
              /\ \E j \in DrainTransfers(d) : j < k /\ log[j].nid = reg[d].ISR[2]
        /\ coord.nsMgr = "stopped" /\ coord.unregisterCalls = 1

\* C21 as stated: the drain issues exactly one transfer for every local
\* replica that self leads and whose ISR holds a node other than self, and
\* none for the replicas self does not lead
C21_EveryLedReplica ==
    \A k \in Issued("drained") :
        \A d \in DOMAIN reg \cap DOMAIN local :
            IF local[d].leader = GetMyRegID /\ Range(reg[d].ISR) \ {Self} # {}
            THEN Cardinality(DrainTransfers(d)) = 1
            ELSE DrainTransfers(d) = {}

\* some entry of the Removings of d matches (replica id, node RegID)
RemovingAt(d, id, node) ==
    \E nid \in DOMAIN reg[d].Removings :
        reg[d].Removings[nid] = id /\ ExtractRegIDFromGenID(nid) = node

\* C23: add-member is never proposed for a member whose (replica id, node
\* RegID) matches an entry of meta.Removings, also when meta.RaftIDs lists the
\* replica id and no member of the group has it
C23_NoAddForRemoving ==
    \A i \in Issued("add") : ~RemovingAt(log[i].d, log[i].id, log[i].node)

\* C23's case: the member sync found a replica of RaftIDs missing from the
\* members that Removings matches, and proposed nothing for it
C23_Witness ==
    \E i \in Issued("check") :
        /\ MemberSyncing(i)
        /\ \E nid \in MissingReplicas(reg[log[i].d], local[log[i].d].members) :
              RemovingAt(log[i].d, reg[log[i].d].RaftIDs[nid],
                         ExtractRegIDFromGenID(nid))
        /\ worker.pc = "select"
        /\ Issued("add") = {}
        /\ nudges >= 1

\* C24: the reconciliation does not overlap the drain of Stop: once the drain
\* has stopped the namespace manager, the main loop creates and starts no
\* replica, sends no join request and issues no add-member, remove-member or
\* leader-transfer proposal
C24_NoReconcileAfterDrain ==
    \A k \in Issued("drained") :
        \A j \in DOMAIN log :
            j > k => log[j].ev \notin {"create", "join", "add", "remove",
                                       "transfer"}

\* the group of d is as the meta places it: its members are the replicas of
\* meta.RaftIDs and its leader is ISR[0]
Converged(d) ==
    /\ d \in DOMAIN reg /\ d \in DOMAIN local
    /\ local[d].members = {Member(reg[d].RaftIDs[nid], ExtractRegIDFromGenID(nid), d) :
                              nid \in DOMAIN reg[d].RaftIDs}
    /\ Len(reg[d].ISR) > 0
    /\ local[d].leader = ExtractRegIDFromGenID(reg[d].ISR[1])

\* C13: on a meta that does not change, once the members of the group are the
\* replicas of meta.RaftIDs and the leader is ISR[0], a pass issues no
\* add-member, remove-member or leader-transfer proposal and no join request
C13_Idempotent ==
    \A d \in DOMAIN reg :
        Converged(d) =>
            ~\E i \in DOMAIN log :
                /\ log[i].d = d /\ log[i].by # "drain"
                /\ log[i].ev \in {"add", "remove", "transfer", "join"}

---------------------------------------------------------------------------
(* Passes over and over on a registry that does not change, no call failing *)

InitFair ==
    \E m \in ReconMetas, r \in ReconLocals :
       \E ans \in ReconAnswers(m) :
          /\ IsRemovingSelf(m) \/ ans = PeersOf(m)
          /\ InitRunning((GetDesp(m) :> m), (GetDesp(m) :> ans), r, FALSE)

NextFair ==
    \/ LoadStep
    \/ \E f \in BagToSet(frames) : JoinConfInvalid(f)
    \/ \E f \in BagToSet(frames) : JoinLoop(f)
    \/ \E f \in BagToSet(frames) : JoinTimeout(f)
    \/ \E f \in BagToSet(frames) : JoinWaitTimer(f)
    \/ \E f \in BagToSet(frames) : JoinEnd(f)
    \/ CheckStep
    \/ LoopNudge
    \/ LoopTick
    \/ NudgePost

\* the ticker and the nudges keep the loop going, and every call returns
SpecFair == InitFair /\ [][NextFair]_vars /\ WF_vars(NextFair)

\* a replica runs for exactly the partitions that should start here
ReplicasAsPlaced ==
    \A d \in DOMAIN reg :
        d \in DOMAIN local <=> isNamespaceShouldStart(reg[d], peers[d])

\* C8: on a registry that does not change and with every call succeeding, the
\* passes reach and keep a state where a replica exists exactly for the
\* partitions that should start here; the replica of a fully removed node is
\* destroyed in the end
C8_Converges == <>[]ReplicasAsPlaced

---------------------------------------------------------------------------
(* One load pass over two namespaces *)

\* the metas of a partition: a group with self in it, one whose RaftIDs lack
\* self, one placed elsewhere
LoadMetaKinds(name, part) ==
    {PartitionMeta(name, part, 2, <<"n1", "n2">>, <<"n2", "n1">>,
                   ("n1" :> 1) @@ ("n2" :> 2), <<>>),
     PartitionMeta(name, part, 2, <<"n1", "n2">>, <<"n2", "n1">>, ("n2" :> 2), <<>>),
     PartitionMeta(name, part, 2, <<"n2", "n3">>, <<"n2", "n3">>,
                   ("n2" :> 2) @@ ("n3" :> 3), <<>>)}

\* the replicas of a partition: none (the empty set), one that has joined and is
\* synced, one the group has not taken in
LoadLocalKinds(d) ==
    {{}, {Replica(1, {Member(1, 1, d), Member(2, 2, d)}, 2, TRUE, TRUE)},
     {Replica(1, {Member(2, 2, d)}, 2, FALSE, TRUE)}}

LoadParts == {<<"a", 0>>, <<"a", 1>>, <<"b", 0>>}

InitLoad ==
    \E metas \in [LoadParts -> UNION {LoadMetaKinds(d[1], d[2]) : d \in LoadParts}],
       locs \in [LoadParts -> UNION {LoadLocalKinds(d) : d \in LoadParts}] :
        /\ \A d \in LoadParts :
              metas[d] \in LoadMetaKinds(d[1], d[2]) /\ locs[d] \in LoadLocalKinds(d)
        /\ InitRunning(metas, [d \in LoadParts |-> PeersOf(metas[d])],
                       [d \in {x \in LoadParts : locs[x] # {}} |->
                           CHOOSE r \in locs[d] : TRUE],
                       FALSE)

NextLoad ==
    \/ LoadStep
    \/ \E f \in BagToSet(frames) : JoinConfInvalid(f)
    \/ \E f \in BagToSet(frames) : JoinLoop(f)
    \/ \E f \in BagToSet(frames) : JoinTimeout(f)
    \/ \E f \in BagToSet(frames) : JoinWaitTimer(f)
    \/ \E f \in BagToSet(frames) : JoinEnd(f)

SpecLoad == InitLoad /\ [][NextLoad]_vars

\* what the load pass does to a partition: create, start, ask to join
Handling == {"create", "ensure", "join"}

\* the places of the log where ensureJoinNamespaceGroup returned an error other
\* than ConfInvalid
JoinFailed ==
    {i \in Issued("joinret") : log[i].res \notin {"nil", "ConfInvalid"}}

\* the pass can bring the partition d up: its replica runs or can be created
CanHandle(d) ==
    /\ isNamespaceShouldStart(reg[d], peers[d])
    /\ d \in DOMAIN local \/ (Self \in DOMAIN reg[d].RaftIDs /\ SeedNodes(reg[d], TRUE) # {})

\* C10: a load pass handles the partitions of a namespace in ascending
\* Partition order; after ensureJoinNamespaceGroup failed on p with an error
\* other than ConfInvalid no q > p of the namespace is created, started or
\* asked to join; the partitions of the other namespaces are handled all the same
C10_OrderAndBreak ==
    /\ \A i, j \in DOMAIN log :
          (/\ i < j
           /\ log[i].ev \in Handling \cup {"joinret"}
           /\ log[j].ev \in Handling \cup {"joinret"}
           /\ log[i].d[1] = log[j].d[1])
          => log[i].d[2] <= log[j].d[2]
    /\ \A i \in JoinFailed : \A j \in DOMAIN log :
          (log[j].d[1] = log[i].d[1] /\ log[j].d[2] > log[i].d[2])
          => log[j].ev \notin Handling
    /\ worker.pc = "loaded" =>
          \A d \in DOMAIN reg :
              CanHandle(d) =>
                  \/ \E i \in Issued("ensure") : log[i].d = d
                  \/ \E i \in JoinFailed :
                        log[i].d[1] = d[1] /\ log[i].d[2] < d[2]

\* C10's case: the join of a-0 failed, a-1 was left out and b-0 was handled
C10_Witness ==
    /\ worker.pc = "loaded"
    /\ CanHandle(<<"a", 1>>)
    /\ \E i \in JoinFailed : log[i].d = <<"a", 0>>
    /\ ~\E i \in DOMAIN log : log[i].d = <<"a", 1>>
    /\ \E i \in Issued("ensure") : log[i].d = <<"b", 0>>

====
